---- MODULE Spec2Model ----
(***************************************************************************)
(* A model of the Postmark API wrapper of src/src/pmk.js: the email()      *)
(* request builder with its concurrent attachment reads, the passthrough   *)
(* endpoints, and makeRequest with its response handler.                   *)
(*                                                                         *)
(* JavaScript values are records with a type tag; a string is the sequence *)
(* of its characters, so that join, quoting, basename and base64 are       *)
(* computed and not assumed.                                               *)
(***************************************************************************)
EXTENDS Integers, Sequences, FiniteSets, TLC

(***************************************************************************)
(* JavaScript values                                                       *)
(***************************************************************************)
Undef == [t |-> "undef", s |-> <<>>, n |-> 0, a |-> <<>>, o |-> <<>>]

Null == [t |-> "null", s |-> <<>>, n |-> 0, a |-> <<>>, o |-> <<>>]

Str(chars) == [t |-> "str", s |-> chars, n |-> 0, a |-> <<>>, o |-> <<>>]

Num(k) == [t |-> "num", s |-> <<>>, n |-> k, a |-> <<>>, o |-> <<>>]

Arr(elems) == [t |-> "arr", s |-> <<>>, n |-> 0, a |-> elems, o |-> <<>>]

Obj(fields) == [t |-> "obj", s |-> <<>>, n |-> 0, a |-> <<>>, o |-> fields]

EmptyObj == Obj(<<>>)

\* the truth value JavaScript gives v in a condition
Truthy(v) ==
    \/ v.t \in {"arr", "obj"}
    \/ v.t = "str" /\ v.s # <<>>
    \/ v.t = "num" /\ v.n # 0

IsArray(v) == v.t = "arr"

HasKey(obj, k) == k \in DOMAIN obj.o

\* obj[k]: undefined when the key is absent
Get(obj, k) == IF HasKey(obj, k) THEN obj.o[k] ELSE Undef

\* obj[k] = v
Put(obj, k, v) ==
    Obj([x \in (DOMAIN obj.o) \cup {k} |-> IF x = k THEN v ELSE obj.o[x]])

\* delete obj[k]
Delete(obj, k) == Obj([x \in (DOMAIN obj.o) \ {k} |-> obj.o[x]])

(***************************************************************************)
(* String literals of the source, character by character                   *)
(***************************************************************************)
MsgToNotSet == <<"'", "t", "o", "'", " ", "e", "m", "a", "i", "l", " ", "a",
    "d", "d", "r", "e", "s", "s", " ", "n", "o", "t", " ", "s", "e", "t">>

MsgSubjectNotSet == <<"'", "s", "u", "b", "j", "e", "c", "t", "'", " ", "f",
    "o", "r", " ", "e", "m", "a", "i", "l", " ", "n", "o", "t", " ", "s",
    "e", "t">>

MsgContentNotSet == <<"e", "m", "a", "i", "l", " ", "c", "o", "n", "t", "e",
    "n", "t", " ", "(", "'", "t", "e", "x", "t", "'", ",", " ", "'", "h",
    "t", "m", "l", "'", ")", " ", "n", "o", "t", " ", "s", "e", "t">>

MsgRecipientLimit == <<"P", "o", "s", "t", "m", "a", "r", "k", " ", "h", "a",
    "s", " ", "a", " ", "l", "i", "m", "i", "t", " ", "o", "f", " ", "2",
    "0", " ", "r", "e", "c", "i", "p", "i", "e", "n", "t", "s", ",", " ",
    "t", "h", "i", "s", " ", "r", "e", "q", "u", "e", "s", "t", " ", "h",
    "a", "s", " ">>

MsgAttachmentPaths == <<"A", "t", "t", "a", "c", "h", "m", "e", "n", "t",
    "s", " ", "m", "u", "s", "t", " ", "b", "e", " ", "f", "i", "l", "e",
    " ", "p", "a", "t", "h", "s">>

MsgParseFailed == <<"F", "a", "i", "l", "e", "d", " ", "t", "o", " ", "p",
    "a", "r", "s", "e", " ", "r", "e", "s", "p", "o", "n", "s", "e">>

MsgFailed == <<"F", "a", "i", "l", "e", "d">>

BaseUri == <<"h", "t", "t", "p", "s", ":", "/", "/", "a", "p", "i", ".", "p",
    "o", "s", "t", "m", "a", "r", "k", "a", "p", "p", ".", "c", "o", "m",
    "/">>

Base64Alphabet == <<"A", "B", "C", "D", "E", "F", "G", "H", "I", "J", "K",
    "L", "M", "N", "O", "P", "Q", "R", "S", "T", "U", "V", "W", "X", "Y",
    "Z", "a", "b", "c", "d", "e", "f", "g", "h", "i", "j", "k", "l", "m",
    "n", "o", "p", "q", "r", "s", "t", "u", "v", "w", "x", "y", "z", "0",
    "1", "2", "3", "4", "5", "6", "7", "8", "9", "+", "/">>

Digits == <<"0", "1", "2", "3", "4", "5", "6", "7", "8", "9">>

MimeTextPlain == <<"t", "e", "x", "t", "/", "p", "l", "a", "i", "n">>

MimeImagePng == <<"i", "m", "a", "g", "e", "/", "p", "n", "g">>

MimeDefault == <<"a", "p", "p", "l", "i", "c", "a", "t", "i", "o", "n", "/",
    "o", "c", "t", "e", "t", "-", "s", "t", "r", "e", "a", "m">>

WordChars ==
    {"a", "b", "c", "d", "e", "f", "g", "h", "i", "j", "k", "l", "m", "n", "o", "p", "q", "r", "s", "t", "u", "v", "w", "x", "y", "z",
     "A", "B", "C", "D", "E", "F", "G", "H", "I", "J", "K", "L", "M", "N", "O", "P", "Q", "R", "S", "T", "U", "V", "W", "X", "Y", "Z",
     "0", "1", "2", "3", "4", "5", "6", "7", "8", "9", " "}

(***************************************************************************)
(* Pure helpers                                                            *)
(***************************************************************************)
\* NonWordTest finding nothing: the name is never quoted
NonWordTestNever(chars) == FALSE

\* nonWord.test(chars): some character outside [a-z0-9 ], case-insensitive
NonWordTest(chars) == \E i \in 1..Len(chars) : chars[i] \notin WordChars

\* String(v), as Array.prototype.join converts an element
ToStr(v) == IF v.t = "str" THEN v.s ELSE <<>>

RECURSIVE JoinFrom(_, _)
JoinFrom(elems, i) ==
    IF i > Len(elems) THEN <<>>
    ELSE IF i = Len(elems) THEN ToStr(elems[i])
    ELSE ToStr(elems[i]) \o <<",">> \o JoinFrom(elems, i + 1)

\* elems.join(',')
Join(elems) == JoinFrom(elems, 1)

RECURSIVE NumToChars(_)
\* the decimal digits of k, as string concatenation converts a number
NumToChars(k) ==
    IF k < 10 THEN <<Digits[k + 1]>>
    ELSE NumToChars(k \div 10) \o <<Digits[(k % 10) + 1]>>

\* index of the last occurrence of character c in chars, 0 when there is none
LastIndexOf(chars, c) ==
    LET hits == {i \in 1..Len(chars) : chars[i] = c}
    IN  IF hits = {} THEN 0 ELSE CHOOSE i \in hits : \A j \in hits : j <= i

\* path.basename(filepath)
Basename(filepath) ==
    SubSeq(filepath, LastIndexOf(filepath, "/") + 1, Len(filepath))

\* the extension mime.lookup looks up: what follows the last dot
Extension(filepath) ==
    SubSeq(filepath, LastIndexOf(filepath, ".") + 1, Len(filepath))

\* mime.lookup(filepath)
MimeLookup(filepath) ==
    IF Extension(filepath) = <<"t", "x", "t">> THEN MimeTextPlain
    ELSE IF Extension(filepath) = <<"p", "n", "g">> THEN MimeImagePng
    ELSE MimeDefault

RECURSIVE Base64(_)
\* Buffer.toString('base64') of a sequence of bytes
Base64(bytes) ==
    LET A == Base64Alphabet
    IN  IF Len(bytes) = 0 THEN <<>>
        ELSE IF Len(bytes) = 1 THEN
            <<A[(bytes[1] \div 4) + 1], A[((bytes[1] % 4) * 16) + 1], "=", "=">>
        ELSE IF Len(bytes) = 2 THEN
            <<A[(bytes[1] \div 4) + 1],
              A[((bytes[1] % 4) * 16 + bytes[2] \div 16) + 1],
              A[((bytes[2] % 16) * 4) + 1], "=">>
        ELSE
            <<A[(bytes[1] \div 4) + 1],
              A[((bytes[1] % 4) * 16 + bytes[2] \div 16) + 1],
              A[((bytes[2] % 16) * 4 + bytes[3] \div 64) + 1],
              A[(bytes[3] % 64) + 1]>>
            \o Base64(SubSeq(bytes, 4, Len(bytes)))
PathEmail == <<"e", "m", "a", "i", "l">>

PathDeliverystats == <<"d", "e", "l", "i", "v", "e", "r", "y", "s", "t", "a",
    "t", "s">>

PathBounces == <<"b", "o", "u", "n", "c", "e", "s">>

PathSenders == <<"s", "e", "n", "d", "e", "r", "s">>

PathSendersSlash == <<"s", "e", "n", "d", "e", "r", "s", "/">>

PathSenderSlash == <<"s", "e", "n", "d", "e", "r", "/">>

PathServers == <<"s", "e", "r", "v", "e", "r", "s">>

PathServersSlash == <<"s", "e", "r", "v", "e", "r", "s", "/">>

TextInvalidEmail == <<"I", "n", "v", "a", "l", "i", "d", " ", "e", "m", "a",
    "i", "l">>

AddrFrom == <<"a", "@", "b", ".", "c", "o", "m">>

NameJohnDoe == <<"J", "o", "h", "n", " ", "D", "o", "e">>

NameJohnCommaDoe == <<"J", "o", "h", "n", ",", " ", "D", "o", "e">>

FileNotes == <<"d", "o", "c", "s", "/", "n", "o", "t", "e", "s", ".", "t",
    "x", "t">>

FileLogo == <<"i", "m", "g", "/", "l", "o", "g", "o", ".", "p", "n", "g">>

FileMissing == <<"d", "o", "c", "s", "/", "m", "i", "s", "s", "i", "n", "g",
    ".", "t", "x", "t">>

FileGone == <<"i", "m", "g", "/", "g", "o", "n", "e", ".", "p", "n", "g">>


(***************************************************************************)
(* Errors                                                                  *)
(***************************************************************************)
\* no error: the null a callback gets as its first argument on success
NoError == [name |-> "null", message |-> Undef, detail |-> Undef]

\* new PMKError(message, detail)
PMKError(message, detail) ==
    [name |-> "PMKError", message |-> message, detail |-> detail]

\* the error fs.readFile gives for a path it cannot read
FsError(filepath) ==
    [name |-> "Error",
     message |-> Str(<<"E", "N", "O", "E", "N", "T", " ">> \o filepath),
     detail |-> Undef]

\* the error the request library gives when the connection fails
TransportError ==
    [name |-> "Error",
     message |-> Str(<<"E", "C", "O", "N", "N", "R", "E", "S", "E", "T">>),
     detail |-> Undef]

\* one invocation of the caller's callback: callback(err, res)
Callback(err, res) == [err |-> err, res |-> res]

(***************************************************************************)
(* email(): the synchronous part, lines 52-131                             *)
(***************************************************************************)
MaxRecipients == 20

\* lines 72-78: who the email is from
WithFrom(m, body) ==
    IF Truthy(m.from) /\ Truthy(m.fromName) THEN
        Put(body, "From",
            Str((IF NonWordTest(m.fromName.s)
                 THEN <<"\"">> \o m.fromName.s \o <<"\"">>
                 ELSE m.fromName.s)
                \o <<" ", "<">> \o m.from.s \o <<">">>))
    ELSE IF Truthy(m.from) THEN Put(body, "From", m.from)
    ELSE body

\* ToCount counting a list as one recipient
ToCountOne(to) == 1

\* lines 81-92, once message.to passed the mandatory check
ToCount(to) == IF IsArray(to) THEN Len(to.a) ELSE 1

WithTo(m, body) ==
    IF IsArray(m.to) THEN Put(body, "To", Str(Join(m.to.a)))
    ELSE Put(body, "To", m.to)

\* lines 94-114: cc and bcc
CopyCount(v) ==
    IF IsArray(v) THEN Len(v.a) ELSE IF Truthy(v) THEN 1 ELSE 0

WithCopy(body, key, v) ==
    IF IsArray(v) THEN
        (IF Len(v.a) # 0 THEN Put(body, key, Str(Join(v.a))) ELSE body)
    ELSE IF Truthy(v) THEN Put(body, key, v)
    ELSE body

\* lines 122-131: message.headers is an ordered mapping, here the sequence
\* of its [key, value] pairs in iteration order
WithHeaders(m, body) ==
    IF Truthy(m.headers) THEN
        Put(body, "Headers",
            Arr([i \in 1..Len(m.headers.a) |->
                    Obj([Name |-> m.headers.a[i].a[1],
                         Value |-> m.headers.a[i].a[2]])]))
    ELSE body

SyncResult(err, body, recipients) ==
    [err |-> err, body |-> body, recipients |-> recipients]

\* MandatoryError without the check of text and html
MandatoryErrorNoContentCheck(m) ==
    IF ~Truthy(m.to) THEN PMKError(Str(MsgToNotSet), Undef)
    ELSE IF ~Truthy(m.subject) THEN PMKError(Str(MsgSubjectNotSet), Undef)
    ELSE NoError

\* MandatoryError checking the subject before `to`
MandatoryErrorSubjectFirst(m) ==
    IF ~Truthy(m.subject) THEN PMKError(Str(MsgSubjectNotSet), Undef)
    ELSE IF ~Truthy(m.to) THEN PMKError(Str(MsgToNotSet), Undef)
    ELSE IF ~Truthy(m.text) /\ ~Truthy(m.html) THEN
        PMKError(Str(MsgContentNotSet), Undef)
    ELSE NoError

\* lines 60-70: the mandatory checks
MandatoryError(m) ==
    IF ~Truthy(m.to) THEN PMKError(Str(MsgToNotSet), Undef)
    ELSE IF ~Truthy(m.subject) THEN PMKError(Str(MsgSubjectNotSet), Undef)
    ELSE IF ~Truthy(m.text) /\ ~Truthy(m.html) THEN
        PMKError(Str(MsgContentNotSet), Undef)
    ELSE NoError

\* line 117: the recipient limit check
OverLimit(recipients) == recipients > MaxRecipients

\* lines 60-131: the checks and the fields built before any I/O
EmailSync(m) ==
    IF MandatoryError(m) # NoError THEN
        SyncResult(MandatoryError(m), EmptyObj, 0)
    ELSE
        LET b1 == WithFrom(m, EmptyObj)
        IN  IF IsArray(m.to) /\ Len(m.to.a) = 0 THEN
                SyncResult(PMKError(Str(MsgToNotSet), Undef), b1, 0)
            ELSE
                LET b2 == WithCopy(WithCopy(WithTo(m, b1), "Cc", m.cc),
                                   "Bcc", m.bcc)
                    recipients == ToCount(m.to) + CopyCount(m.cc)
                                  + CopyCount(m.bcc)
                IN  IF OverLimit(recipients) THEN
                        SyncResult(
                            PMKError(Str(MsgRecipientLimit
                                         \o NumToChars(recipients)), Undef),
                            b2, recipients)
                    ELSE SyncResult(NoError, WithHeaders(m, b2), recipients)

(***************************************************************************)
(* email(): doRequest, lines 160-183                                       *)
(***************************************************************************)
\* line 176-178: body[wireKey] = message[key] when message[key] is truthy
CopyPair(body, v, wireKey) ==
    IF Truthy(v) THEN Put(body, wireKey, v) ELSE body

\* lines 167-179: the rest of the keys
RestOfKeys(m, body) ==
    CopyPair(CopyPair(CopyPair(CopyPair(CopyPair(CopyPair(body,
        m.reply, "ReplyTo"), m.tag, "Tag"), m.html, "HtmlBody"),
        m.text, "TextBody"), m.subject, "Subject"), m.to, "To")

(***************************************************************************)
(* makeRequest, lines 545-598                                              *)
(***************************************************************************)
RECURSIVE JsonValue(_)
\* the value a JSON text written by JSON.stringify reads back as: keys whose
\* value is undefined are left out, undefined array elements become null
JsonValue(v) ==
    IF v.t = "obj" THEN
        Obj([k \in {x \in DOMAIN v.o : v.o[x].t # "undef"} |->
                JsonValue(v.o[k])])
    ELSE IF v.t = "arr" THEN
        Arr([i \in 1..Len(v.a) |->
                IF v.a[i].t = "undef" THEN Null ELSE JsonValue(v.a[i])])
    ELSE v

\* JSON.stringify(data): a JSON text, kept as the value it denotes
Stringify(data) ==
    [t |-> "json", s |-> <<>>, n |-> 0, a |-> <<JsonValue(data)>>, o |-> <<>>]

\* lines 551-568: the options handed to request(); data is Null when the
\* caller gave none (line 548)
RequestOptions(method, pathname, data) ==
    [method |-> method,
     uri |-> BaseUri \o pathname,
     body |-> IF Truthy(data) /\ method = "POST" THEN Stringify(data)
              ELSE Undef,
     qs |-> IF Truthy(data) /\ method # "POST" THEN data ELSE Undef]

\* the response bodies the stubbed transport answers with
ResponseBodies ==
    {"<html>502 Bad Gateway</html>",
     "",
     "null",
     "{\"ErrorCode\":0,\"Message\":\"OK\",\"MessageID\":\"m1\"}",
     "{\"TotalCount\":0}",
     "{\"ErrorCode\":300,\"Message\":\"Invalid email\"}",
     "{\"ErrorCode\":300}",
     "{\"ErrorCode\":300,\"Message\":\"\"}"}

Parsed(value) == [ok |-> TRUE, value |-> value]

\* JSON.parse(text) on the texts above: the value read, or ok = FALSE where
\* JSON.parse throws a SyntaxError
JSONParse(text) ==
    CASE text = "null" -> Parsed(Null)
      [] text = "{\"ErrorCode\":0,\"Message\":\"OK\",\"MessageID\":\"m1\"}" ->
            Parsed(Obj([ErrorCode |-> Num(0), Message |-> Str(<<"O", "K">>),
                        MessageID |-> Str(<<"m", "1">>)]))
      [] text = "{\"TotalCount\":0}" -> Parsed(Obj([TotalCount |-> Num(0)]))
      [] text = "{\"ErrorCode\":300,\"Message\":\"Invalid email\"}" ->
            Parsed(Obj([ErrorCode |-> Num(300),
                        Message |-> Str(TextInvalidEmail)]))
      [] text = "{\"ErrorCode\":300}" -> Parsed(Obj([ErrorCode |-> Num(300)]))
      [] text = "{\"ErrorCode\":300,\"Message\":\"\"}" ->
            Parsed(Obj([ErrorCode |-> Num(300), Message |-> Str(<<>>)]))
      [] OTHER -> [ok |-> FALSE, value |-> Undef]

\* what the transport hands the handler of line 570: (err, res, body)
Response(err, text) == [err |-> err, body |-> text]

Responses ==
    {Response(TransportError, "")}
    \cup {Response(NoError, text) : text \in ResponseBodies}

\* the handler's effect: one callback invocation, or an exception that
\* escapes the handler
Delivered(cb) == [kind |-> "callback", cb |-> cb, exception |-> "none"]

Escaped(exception) ==
    [kind |-> "throw", cb |-> Callback(NoError, Undef), exception |-> exception]

\* lines 570-597: the response handler of makeRequest
HandleResponse(r) ==
    IF r.err # NoError THEN Delivered(Callback(r.err, Undef))
    ELSE
        LET p == JSONParse(r.body)
            result == p.value
        IN  IF ~p.ok THEN
                Delivered(Callback(PMKError(Str(MsgParseFailed), Undef), Undef))
            ELSE IF result.t \in {"null", "undef"} THEN
                \* line 585 reads a property of null
                Escaped("TypeError")
            ELSE IF Truthy(Get(result, "ErrorCode")) THEN
                IF Truthy(Get(result, "Message")) THEN
                    Delivered(Callback(PMKError(Get(result, "Message"),
                                                Delete(result, "Message")),
                                       Undef))
                ELSE
                    Delivered(Callback(PMKError(Str(MsgFailed), result), Undef))
            ELSE Delivered(Callback(NoError, result))

(***************************************************************************)
(* The stubbed file system behind fs.readFile (line 142)                   *)
(***************************************************************************)
Readable(filepath) == filepath \in {FileNotes, FileLogo}

\* the bytes of a readable file
FileContent(filepath) ==
    IF filepath = FileNotes THEN <<72, 105, 33, 10>> ELSE <<137, 80, 78>>

\* lines 148-152: the record pushed for a file that was read
AttachmentRecord(filepath) ==
    Obj([Name |-> Str(Basename(filepath)),
         Content |-> Str(Base64(FileContent(filepath))),
         ContentType |-> Str(MimeLookup(filepath))])

\* body[key].push(v)
Push(body, key, v) == Put(body, key, Arr(Append(Get(body, key).a, v)))

(***************************************************************************)
(* Inputs                                                                  *)
(***************************************************************************)
\* how many times email() is called with the same message
MaxCalls == 2

\* the longest recipient list tried: one more than the limit of 20
MaxListLen == 21

AddrA == <<"a", "@", "x">>

AddrB == <<"b", "@", "x">>

\* a list of k addresses, alternately AddrA and AddrB
AddrList(k) == Arr([i \in 1..k |-> Str(IF i % 2 = 1 THEN AddrA ELSE AddrB)])

TextHi == Str(<<"H", "i">>)

BaseMessage ==
    [from |-> Undef, fromName |-> Undef, to |-> Str(AddrA), cc |-> Undef,
     bcc |-> Undef, reply |-> Undef, tag |-> Undef, headers |-> Undef,
     attachments |-> Undef, subject |-> TextHi, text |-> Str(<<"t">>),
     html |-> Undef]

\* messages that exercise the checks and the recipient fields
RecipientMessages ==
    {[BaseMessage EXCEPT !.to = to, !.cc = cc, !.bcc = bcc, !.subject = su,
                         !.text = tx, !.html = ht, !.attachments = at] :
        to \in {Undef, Str(<<>>), Str(AddrA), AddrList(0), AddrList(2),
                AddrList(15), AddrList(MaxListLen)},
        cc \in {Undef, Str(AddrB), AddrList(0), AddrList(4),
                AddrList(MaxListLen)},
        bcc \in {Undef, Str(AddrB), AddrList(2)},
        su \in {Undef, TextHi},
        tx \in {Undef, Str(<<"t">>)},
        ht \in {Undef, Str(<<"<", "p", ">">>)},
        at \in {Undef, Arr(<<Str(FileNotes)>>)}}

\* messages that exercise From and the scalar fields
SenderMessages ==
    {[BaseMessage EXCEPT !.from = fr, !.fromName = fn, !.reply = re,
                         !.tag = tg, !.headers = hd] :
        fr \in {Undef, Str(<<>>), Str(AddrFrom)},
        fn \in {Undef, Str(<<>>), Str(NameJohnDoe), Str(NameJohnCommaDoe)},
        re \in {Undef, Str(AddrB)},
        tg \in {Undef, Str(<<"T">>)},
        hd \in {Undef,
                Arr(<<Arr(<<Str(<<"X", "-", "A">>), Str(<<"1">>)>>),
                      Arr(<<Str(<<"X", "-", "B">>), Str(<<"2">>)>>)>>)}}

AttachmentLists ==
    {Undef, Arr(<<>>),
     Arr(<<Str(FileNotes)>>),
     Arr(<<Str(FileMissing)>>),
     Arr(<<Num(42)>>),
     Arr(<<Str(FileNotes), Str(FileLogo)>>),
     Arr(<<Str(FileNotes), Str(FileMissing)>>),
     Arr(<<Str(FileMissing), Str(FileLogo)>>),
     Arr(<<Str(FileMissing), Str(FileGone)>>),
     Arr(<<Str(FileNotes), Num(42)>>),
     Arr(<<Str(FileNotes), Str(FileMissing), Str(FileLogo)>>)}

\* messages that exercise the attachment reads
AttachmentMessages ==
    {[BaseMessage EXCEPT !.to = to, !.attachments = at] :
        to \in {Str(AddrA), AddrList(2)}, at \in AttachmentLists}

Messages == RecipientMessages \cup SenderMessages \cup AttachmentMessages

Id == <<"7">>

PagingOptions ==
    {Undef, EmptyObj, Obj([count |-> Num(10), offset |-> Num(0)])}

SenderOptions ==
    {Obj([name |-> nm, from |-> fr, reply |-> re]) :
        nm \in {Undef, Str(<<"N">>)}, fr \in {Undef, Str(AddrFrom)},
        re \in {Undef, Str(AddrB)}}

True == [t |-> "bool", s |-> <<>>, n |-> 1, a |-> <<>>, o |-> <<>>]

ServerOptions ==
    {Obj([name |-> nm, color |-> co, smtp |-> sm, raw |-> rw,
          inboundHook |-> ih, bounceHook |-> bh, inboundDomain |-> dm]) :
        nm \in {Undef, Str(<<"N">>)}, co \in {Undef, Str(<<"r", "e", "d">>)},
        sm \in {Undef, True}, rw \in {Undef, True},
        ih \in {Undef, Str(<<"h">>)}, bh \in {Undef, Str(<<"h">>)},
        dm \in {Undef, Str(<<"d">>)}}

(***************************************************************************)
(* State                                                                   *)
(***************************************************************************)
VARIABLES
    obj,        \* "unbuilt", "ready", or "ctorThrown": the API object
    op,         \* the public operation called on it, "none" before any
    args,       \* a passthrough operation: its options argument
    msg,        \* email(): its message argument
    body,       \* email(): its local `body` object
    reads,      \* email(): per attachment "pending", "ok", "err", "rejected"
    completed,  \* async.each: iterations that called back without error
    failed,     \* async.each: an iteration failed, its callback is now a no-op
    sent,       \* the requests handed to request() by the current call
    answered,   \* how many of them the transport has answered
    lastResp,   \* the response answered last
    cbs,        \* the invocations of the caller's callback, in order
    thrown,     \* the exception thrown past the call boundary, "none" if none
    uncaught,   \* the exception that escaped the response handler
    nCalls,     \* how many times email() was called
    prevSent    \* the requests of the previous email() call

vars == <<obj, op, args, msg, body, reads, completed, failed, sent, answered,
          lastResp, cbs, thrown, uncaught, nCalls, prevSent>>

Init ==
    /\ obj = "unbuilt"
    /\ op = "none"
    /\ args = Undef
    /\ msg = BaseMessage
    /\ body = EmptyObj
    /\ reads = <<>>
    /\ completed = 0
    /\ failed = FALSE
    /\ sent = <<>>
    /\ answered = 0
    /\ lastResp = Response(NoError, "")
    /\ cbs = <<>>
    /\ thrown = "none"
    /\ uncaught = "none"
    /\ nCalls = 0
    /\ prevSent = <<>>

\* lines 21-30: new PMK(...) with nargs arguments
Construct(nargs) ==
    /\ obj = "unbuilt"
    /\ obj' = IF nargs = 0 THEN "ctorThrown" ELSE "ready"
    /\ UNCHANGED <<op, args, msg, body, reads, completed, failed, sent,
                   answered, lastResp, cbs, thrown, uncaught, nCalls, prevSent>>

\* makeRequest up to the call of request(): the request it hands over
Request(method, pathname, data) ==
    [options |-> RequestOptions(method, pathname, data),
     method |-> method, data |-> data]

\* lines 160-183 with no error: the request doRequest issues
DoRequest(m, b) == Request("POST", PathEmail, RestOfKeys(m, b))

(***************************************************************************)
(* email(), lines 52-184                                                   *)
(***************************************************************************)
\* the call itself, up to its return: the checks, the fields, and either the
\* request (no attachments), or async.each starting one read per attachment
EmailCall(m) ==
    LET r == EmailSync(m)
        n == IF Truthy(m.attachments) THEN Len(m.attachments.a) ELSE 0
        rejected == {i \in 1..n : m.attachments.a[i].t # "str"}
        b == IF Truthy(m.attachments) THEN Put(r.body, "Attachments", Arr(<<>>))
             ELSE r.body
    IN  /\ op' = "email"
        /\ msg' = m
        /\ nCalls' = nCalls + 1
        /\ completed' = 0
        /\ answered' = 0
        /\ IF r.err # NoError THEN
               \* lines 61-70, 82-85, 117-120: a failed check
               /\ cbs' = <<Callback(r.err, Undef)>>
               /\ body' = r.body
               /\ reads' = <<>>
               /\ failed' = FALSE
               /\ sent' = <<>>
           ELSE IF n = 0 THEN
               \* line 157, or async.each on an empty list: doRequest at once
               /\ cbs' = <<>>
               /\ body' = RestOfKeys(m, b)
               /\ reads' = <<>>
               /\ failed' = FALSE
               /\ sent' = <<DoRequest(m, b)>>
           ELSE
               \* lines 136-155: an entry that is no string fails at once
               \* (line 138), a string starts a read (line 142)
               /\ reads' = [i \in 1..n |->
                               IF i \in rejected THEN "rejected" ELSE "pending"]
               /\ failed' = (rejected # {})
               /\ cbs' = IF rejected # {}
                         THEN <<Callback(PMKError(Str(MsgAttachmentPaths),
                                                  Undef), Undef)>>
                         ELSE <<>>
               /\ body' = b
               /\ sent' = <<>>

\* no read is pending and no request is unanswered
Quiescent ==
    /\ \A i \in DOMAIN reads : reads[i] # "pending"
    /\ answered = Len(sent)

\* email(message, callback), the first call
Email(m) ==
    /\ obj = "ready"
    /\ op = "none"
    /\ EmailCall(m)
    /\ UNCHANGED <<obj, args, lastResp, thrown, uncaught, prevSent>>

\* email() called again with the same message, once the call before is over
EmailAgain ==
    /\ obj = "ready"
    /\ op = "email"
    /\ Quiescent
    /\ uncaught = "none"
    /\ nCalls < MaxCalls
    /\ prevSent' = sent
    /\ EmailCall(msg)
    /\ UNCHANGED <<obj, args, lastResp, thrown, uncaught>>

\* AllDone not joining the reads: the first one to call back is enough
AllDoneAfterFirst(done, n, hasFailed) == done >= 1

\* AllDone off by one: it does not wait for the last read
AllDoneOneEarly(done, n, hasFailed) == done >= n - 1 /\ ~hasFailed

\* async.each (line 136): its final callback runs without error once every
\* iteration has called back, unless an iteration failed before
AllDone(done, n, hasFailed) == done >= n /\ ~hasFailed

\* lines 142-154 and async.each: the read of attachment i completes
ReadDone(i) ==
    /\ op = "email"
    /\ i \in DOMAIN reads
    /\ reads[i] = "pending"
    /\ LET filepath == msg.attachments.a[i].s
       IN  IF ~Readable(filepath) THEN
               \* lines 143-146: cb(err); async.each passes the first error on
               /\ reads' = [reads EXCEPT ![i] = "err"]
               /\ failed' = TRUE
               /\ cbs' = IF failed THEN cbs
                         ELSE Append(cbs, Callback(FsError(filepath), Undef))
               /\ UNCHANGED <<body, completed, sent>>
           ELSE
               \* lines 148-153: push the record, cb(); async.each calls
               \* doRequest when every iteration has called back
               LET b == Push(body, "Attachments", AttachmentRecord(filepath))
                   last == AllDone(completed + 1, Len(reads), failed)
               IN  /\ reads' = [reads EXCEPT ![i] = "ok"]
                   /\ completed' = completed + 1
                   /\ body' = IF last THEN RestOfKeys(msg, b) ELSE b
                   /\ sent' = IF last THEN Append(sent, DoRequest(msg, b))
                              ELSE sent
                   /\ UNCHANGED <<failed, cbs>>
    /\ UNCHANGED <<obj, op, args, msg, answered, lastResp, thrown, uncaught,
                   nCalls, prevSent>>

(***************************************************************************)
(* The passthrough endpoints                                               *)
(***************************************************************************)
\* a public operation can be called: the object is built and idle
Callable == obj = "ready" /\ op = "none"

\* this.get / this.post / this.put / this.delete (lines 26-29) called by
\* public operation `name`
Passthrough(name, options, method, pathname, data) ==
    /\ op' = name
    /\ args' = options
    /\ sent' = <<Request(method, pathname, data)>>
    /\ UNCHANGED <<obj, msg, body, reads, completed, failed, answered,
                   lastResp, cbs, thrown, uncaught, nCalls, prevSent>>

\* a public operation that throws before it makes a request
Throws(name, options, exception) ==
    /\ op' = name
    /\ args' = options
    /\ thrown' = exception
    /\ UNCHANGED <<obj, msg, body, reads, completed, failed, sent, answered,
                   lastResp, cbs, uncaught, nCalls, prevSent>>

\* lines 191-193
Deliverystats ==
    /\ Callable
    /\ Passthrough("deliverystats", Undef, "GET", PathDeliverystats, Null)

\* lines 207-209
Bounces(options) ==
    /\ Callable
    /\ Passthrough("bounces", options, "GET", PathBounces, options)

\* lines 323-325
Senders(options) ==
    /\ Callable
    /\ Passthrough("senders", options, "GET", PathSenders, options)

\* lines 346-359
CreateSender(options) ==
    /\ Callable
    /\ Passthrough("createSender", options, "POST", PathSenders,
        CopyPair(Obj([Name |-> Get(options, "name"),
                      FromEmail |-> Get(options, "from")]),
                 Get(options, "reply"), "ReplyToEmail"))

\* lines 370-382
UpdateSender(id, options) ==
    /\ Callable
    /\ Passthrough("updateSender", options, "PUT", PathSendersSlash \o id,
        CopyPair(Obj([Name |-> Get(options, "name")]),
                 Get(options, "reply"), "ReplyToEmail"))

\* lines 402-406
DeleteSender(id) ==
    /\ Callable
    /\ Passthrough("deleteSender", Undef, "DELETE", PathSenderSlash \o id, Null)

\* lines 441-443
Servers(options) ==
    /\ Callable
    /\ Passthrough("servers", options, "GET", PathServers, options)

\* the keys of `pairs` in createServer, lines 475-482
CreateServerPairs ==
    {"color", "smtp", "raw", "inboundHook", "bounceHook", "inboundDomain"}

\* the keys of `pairs` in updateServer, lines 512-520
UpdateServerPairs == CreateServerPairs \cup {"name"}

\* lines 484-488 and 522-526: the loop body names `pars`, which is declared
\* nowhere, so the first truthy option raises a ReferenceError
PairsLoopThrows(options, pairs) == \E key \in pairs : Truthy(Get(options, key))

\* lines 468-491
CreateServer(options) ==
    /\ Callable
    /\ IF PairsLoopThrows(options, CreateServerPairs)
       THEN Throws("createServer", options, "ReferenceError")
       ELSE Passthrough("createServer", options, "POST", PathServers,
                        Obj([Name |-> Get(options, "name")]))

\* lines 507-529
UpdateServer(id, options) ==
    /\ Callable
    /\ IF PairsLoopThrows(options, UpdateServerPairs)
       THEN Throws("updateServer", options, "ReferenceError")
       ELSE Passthrough("updateServer", options, "PUT",
                        PathServersSlash \o id, EmptyObj)

\* lines 537-541
DeleteServer(id) ==
    /\ Callable
    /\ Passthrough("deleteServer", Undef, "DELETE", PathServersSlash \o id,
                   Null)

(***************************************************************************)
(* The transport answers a request: the handler of lines 570-597 runs      *)
(***************************************************************************)
Respond(r) ==
    /\ answered < Len(sent)
    /\ uncaught = "none"
    /\ LET h == HandleResponse(r)
       IN  /\ cbs' = IF h.kind = "callback" THEN Append(cbs, h.cb) ELSE cbs
           /\ uncaught' = h.exception
    /\ answered' = answered + 1
    /\ lastResp' = r
    /\ UNCHANGED <<obj, op, args, msg, body, reads, completed, failed, sent,
                   thrown, nCalls, prevSent>>

Next ==
    \/ \E nargs \in {0, 1} : Construct(nargs)
    \/ \E m \in Messages : Email(m)
    \/ EmailAgain
    \/ \E i \in 1..3 : ReadDone(i)
    \/ Deliverystats
    \/ \E options \in PagingOptions : Bounces(options)
    \/ \E options \in PagingOptions : Senders(options)
    \/ \E options \in SenderOptions : CreateSender(options)
    \/ \E options \in SenderOptions : UpdateSender(Id, options)
    \/ DeleteSender(Id)
    \/ \E options \in PagingOptions : Servers(options)
    \/ \E options \in ServerOptions : CreateServer(options)
    \/ \E options \in ServerOptions : UpdateServer(Id, options)
    \/ DeleteServer(Id)
    \/ \E r \in Responses : Respond(r)

Spec == Init /\ [][Next]_vars

(***************************************************************************)
(* Properties                                                              *)
(***************************************************************************)
\* a field the caller left out: undefined, or the empty string
Missing(v) == v = Undef \/ v = Str(<<>>)

ToNotSetError == PMKError(Str(MsgToNotSet), Undef)

SubjectNotSetError == PMKError(Str(MsgSubjectNotSet), Undef)

ContentNotSetError == PMKError(Str(MsgContentNotSet), Undef)

\* the validation errors that correspond to the fields m leaves out
MissingFieldErrors(m) ==
    (IF Missing(m.to) THEN {ToNotSetError} ELSE {})
    \cup (IF Missing(m.subject) THEN {SubjectNotSetError} ELSE {})
    \cup (IF Missing(m.text) /\ Missing(m.html) THEN {ContentNotSetError}
          ELSE {})

\* the payload of the request an email() call issued: the value its JSON
\* body denotes
Wire == sent[1].options.body.a[1]

\* C1: a message without `to`, without `subject`, or with neither `text` nor
\* `html` gets the validation error of a field it leaves out, and the call
\* issues no request and starts no attachment read.
C1_MissingFieldRejected ==
    (op = "email"
     /\ (Missing(msg.to) \/ Missing(msg.subject)
         \/ (Missing(msg.text) /\ Missing(msg.html))))
    => /\ Len(cbs) = 1
       /\ cbs[1].err \in MissingFieldErrors(msg)
       /\ cbs[1].res = Undef
       /\ sent = <<>>
       /\ reads = <<>>

\* a message with an attachment and no subject got the subject error
C1_Witness ==
    /\ op = "email"
    /\ ~Missing(msg.to)
    /\ Missing(msg.subject)
    /\ Truthy(msg.attachments)
    /\ cbs = <<Callback(SubjectNotSetError, Undef)>>

\* what a recipient field is on the wire: an address as it is, a list joined
\* with commas
JoinedRecipients(v) == IF IsArray(v) THEN Str(Join(v.a)) ELSE v

\* a recipient field that names somebody
NamesRecipients(v) == IF IsArray(v) THEN Len(v.a) > 0 ELSE ~Missing(v)

\* C2: in the payload handed to the POST request, To, Cc and Bcc are each
\* one string: a single address unchanged, a list joined with commas.
C2_RecipientsJoined ==
    (op = "email" /\ Len(sent) = 1)
    => /\ Get(Wire, "To") = JoinedRecipients(msg.to)
       /\ NamesRecipients(msg.cc)
            => Get(Wire, "Cc") = JoinedRecipients(msg.cc)
       /\ NamesRecipients(msg.bcc)
            => Get(Wire, "Bcc") = JoinedRecipients(msg.bcc)

\* the recipients a field stands for: 1 for an address, the length of a
\* list, 0 when absent or empty
CountOf(v) == IF IsArray(v) THEN Len(v.a) ELSE IF Missing(v) THEN 0 ELSE 1

RecipientCount(m) == CountOf(m.to) + CountOf(m.cc) + CountOf(m.bcc)

RecipientLimitError(count) ==
    PMKError(Str(MsgRecipientLimit \o NumToChars(count)), Undef)

\* the checks that come before the recipient limit: `to` present and no
\* empty list, `subject` present, `text` or `html` present
PassesEarlierChecks(m) ==
    /\ NamesRecipients(m.to)
    /\ ~Missing(m.subject)
    /\ ~(Missing(m.text) /\ Missing(m.html))

\* C3 as stated: whenever the recipient count exceeds 20 the callback gets
\* the recipient-limit error with the count, and no request is issued.
C3_OverLimitAlwaysLimitError ==
    (op = "email" /\ RecipientCount(msg) > 20)
    => /\ cbs = <<Callback(RecipientLimitError(RecipientCount(msg)), Undef)>>
       /\ sent = <<>>

\* C3 as amended: whenever the recipient count exceeds 20 no request is
\* issued, and when the message also passes the earlier checks the callback
\* gets the recipient-limit error with the count.
C3_OverLimitRejected ==
    (op = "email" /\ RecipientCount(msg) > 20)
    => /\ sent = <<>>
       /\ PassesEarlierChecks(msg)
            => cbs = <<Callback(RecipientLimitError(RecipientCount(msg)),
                                Undef)>>

\* to of 15, cc of 4 and bcc of 2 got the limit error that ends in "21"
C3_Witness ==
    /\ op = "email"
    /\ msg.to = AddrList(15)
    /\ msg.cc = AddrList(4)
    /\ msg.bcc = AddrList(2)
    /\ Len(cbs) = 1
    /\ cbs[1].err.message.s = MsgRecipientLimit \o <<"2", "1">>
    /\ sent = <<>>

\* C4: no public operation throws past the call boundary; only the
\* constructor called without a token does.
C4_NothingThrown == thrown = "none"

\* C5: every response handled by makeRequest gives the callback exactly one
\* of: the transport error as it is; a parse error; an API error with the
\* body's Message (a generic one without it) and the body minus Message as
\* detail; or (null, parsedBody).
C5_ResponseNormalized ==
    answered > 0
    => /\ uncaught = "none"
       /\ cbs # <<>>
       /\ LET r == lastResp
              p == JSONParse(r.body)
              code == Get(p.value, "ErrorCode")
              cb == cbs[Len(cbs)]
          IN  IF r.err # NoError THEN cb = Callback(r.err, Undef)
              ELSE IF ~p.ok THEN
                  cb = Callback(PMKError(Str(MsgParseFailed), Undef), Undef)
              ELSE IF code.t = "num" /\ code.n # 0 THEN
                  /\ cb.res = Undef
                  /\ cb.err.name = "PMKError"
                  /\ cb.err.message =
                        (IF HasKey(p.value, "Message")
                         THEN Get(p.value, "Message") ELSE Str(MsgFailed))
                  /\ cb.err.detail = Delete(p.value, "Message")
              ELSE cb = Callback(NoError, p.value)

\* C6: the data given to a request travels as query parameters when the
\* method is GET and as a JSON body when it is POST or PUT.
C6_DataByMethod ==
    \A i \in 1..Len(sent) :
        sent[i].data.t = "obj"
        => /\ sent[i].method = "GET"
                => /\ sent[i].options.qs = sent[i].data
                   /\ sent[i].options.body = Undef
           /\ sent[i].method \in {"POST", "PUT"}
                => /\ sent[i].options.body = Stringify(sent[i].data)
                   /\ sent[i].options.qs = Undef

\* an attachment entry that fails: no path, or a file that cannot be read
Fails(entry) == entry.t # "str" \/ ~Readable(entry.s)

\* the error its iteration calls back with
FailureOf(entry) ==
    IF entry.t = "str" THEN FsError(entry.s)
    ELSE PMKError(Str(MsgAttachmentPaths), Undef)

\* a message that passes every check of email()
Valid(m) == PassesEarlierChecks(m) /\ RecipientCount(m) <= 20

\* the current call is of a valid message with several attachments of which
\* at least one fails
FailingAttachments ==
    /\ op = "email"
    /\ Valid(msg)
    /\ Truthy(msg.attachments)
    /\ Len(msg.attachments.a) >= 2
    /\ \E i \in 1..Len(msg.attachments.a) : Fails(msg.attachments.a[i])

\* the attachments that have failed so far
FailedSoFar == {i \in DOMAIN reads : reads[i] \in {"err", "rejected"}}

\* C7, in every state: no request is issued, the callback has run once as
\* soon as an attachment has failed, with the error of a failed attachment,
\* and not before
C7_NoRequestOneError ==
    FailingAttachments
    => /\ sent = <<>>
       /\ FailedSoFar = {} => cbs = <<>>
       /\ FailedSoFar # {}
            => /\ Len(cbs) = 1
               /\ cbs[1].res = Undef
               /\ \E i \in FailedSoFar :
                     cbs[1].err = FailureOf(msg.attachments.a[i])

\* C7, in every step: the read that fails first delivers its own error, and
\* what the callback got never changes while the call lasts
C7_FirstFailureStep ==
    (FailingAttachments /\ nCalls' = nCalls)
    => /\ \A i \in DOMAIN reads :
             (FailedSoFar = {} /\ reads[i] = "pending" /\ reads'[i] = "err")
             => cbs' = <<Callback(FsError(msg.attachments.a[i].s), Undef)>>
       /\ cbs # <<>> => cbs' = cbs

\* C7: with several attachments of which at least one cannot be read, under
\* every interleaving of the reads the callback gets the error of the first
\* failure, no request is issued, and the other reads' results, early or
\* late, never reach the wire.
C7_FirstReadErrorWins == [] C7_NoRequestOneError /\ [][C7_FirstFailureStep]_vars

\* three attachments, the second unreadable: all reads are over, the two
\* readable files were read and pushed, the callback got the read error
C7_Witness ==
    /\ FailingAttachments
    /\ reads = <<"ok", "err", "ok">>
    /\ Len(Get(body, "Attachments").a) = 2
    /\ cbs = <<Callback(FsError(FileMissing), Undef)>>
    /\ sent = <<>>

\* C8: a second email() call with the same message hands request() the same
\* payload as the first, whatever the order in which the reads completed.
C8_SamePayloadTwice ==
    (op = "email" /\ nCalls >= 2 /\ Len(sent) = 1 /\ Len(prevSent) = 1)
    => sent[1].options = prevSent[1].options

\* some character of chars is outside [A-Za-z0-9 ]
HasSpecialChar(chars) == \E i \in 1..Len(chars) : chars[i] \notin WordChars

\* the From field stated by C9, for a message that gives `from`
ExpectedFrom(m) ==
    IF Missing(m.fromName) THEN m.from
    ELSE Str((IF HasSpecialChar(m.fromName.s)
              THEN <<"\"">> \o m.fromName.s \o <<"\"">>
              ELSE m.fromName.s)
             \o <<" ", "<">> \o m.from.s \o <<">">>)

\* C9: the wire From is `fromName <from>` when both are given, fromName in
\* double quotes exactly when it has a character outside [A-Za-z0-9 ]; the
\* bare `from` when only `from` is given; absent when `from` is not given.
C9_WireFrom ==
    (op = "email" /\ Len(sent) = 1)
    => IF Missing(msg.from) THEN ~HasKey(Wire, "From")
       ELSE HasKey(Wire, "From") /\ Get(Wire, "From") = ExpectedFrom(msg)

\* fromName "John, Doe" and from "a@b.com" went out as "John, Doe" <a@b.com>
C9_Witness ==
    /\ op = "email"
    /\ Len(sent) = 1
    /\ msg.fromName = Str(NameJohnCommaDoe)
    /\ msg.from = Str(AddrFrom)
    /\ Get(Wire, "From").s =
          <<"\"", "J", "o", "h", "n", ",", " ", "D", "o", "e", "\"", " ", "<",
            "a", "@", "b", ".", "c", "o", "m", ">">>

\* the error of the lowest-numbered violated rule, in the order stated by
\* C10: (1) `to` present and, if a list, non-empty; (2) `subject` present;
\* (3) `text` or `html` present; (4) at most 20 recipients
StatedFirstError(m) ==
    IF ~NamesRecipients(m.to) THEN ToNotSetError
    ELSE IF Missing(m.subject) THEN SubjectNotSetError
    ELSE IF Missing(m.text) /\ Missing(m.html) THEN ContentNotSetError
    ELSE IF RecipientCount(m) > 20
         THEN RecipientLimitError(RecipientCount(m))
    ELSE NoError

\* C10 as stated: a message that violates several rules gets the error of
\* the lowest-numbered one in the stated order.
C10_StatedOrder ==
    (op = "email" /\ StatedFirstError(msg) # NoError)
    => cbs = <<Callback(StatedFirstError(msg), Undef)>>

\* the same in the order of the code: (1) `to` present; (2) `subject`
\* present; (3) `text` or `html` present; (4) `to`, if a list, non-empty;
\* (5) at most 20 recipients
CodeFirstError(m) ==
    IF Missing(m.to) THEN ToNotSetError
    ELSE IF Missing(m.subject) THEN SubjectNotSetError
    ELSE IF Missing(m.text) /\ Missing(m.html) THEN ContentNotSetError
    ELSE IF IsArray(m.to) /\ Len(m.to.a) = 0 THEN ToNotSetError
    ELSE IF RecipientCount(m) > 20
         THEN RecipientLimitError(RecipientCount(m))
    ELSE NoError

\* C10 as amended: validation is fail-fast in the order of CodeFirstError,
\* and a message that violates several rules gets the error of the first.
C10_CodeOrder ==
    (op = "email" /\ CodeFirstError(msg) # NoError)
    => /\ cbs = <<Callback(CodeFirstError(msg), Undef)>>
       /\ sent = <<>>
       /\ reads = <<>>

\* an empty `to` list and no subject: the subject error was delivered
C10_Witness ==
    /\ op = "email"
    /\ msg.to = AddrList(0)
    /\ Missing(msg.subject)
    /\ cbs = <<Callback(SubjectNotSetError, Undef)>>

\* C11: every email() call invokes its callback exactly once and issues at
\* most one request, on every path: never more than once while the call
\* runs, and once when no read is pending and no request is unanswered.
C11_CallbackExactlyOnce ==
    op = "email"
    => /\ Len(cbs) <= 1
       /\ Len(sent) <= 1
       /\ Quiescent => Len(cbs) = 1

\* the current call is of a valid message whose attachments can all be read
ReadableAttachments ==
    /\ op = "email"
    /\ Valid(msg)
    /\ Truthy(msg.attachments)
    /\ \A i \in 1..Len(msg.attachments.a) : ~Fails(msg.attachments.a[i])

\* the record stated by C12 for a file path
ExpectedRecord(filepath) ==
    Obj([Name |-> Str(Basename(filepath)),
         Content |-> Str(Base64(FileContent(filepath))),
         ContentType |-> Str(MimeLookup(filepath))])

\* records holds exactly one record per entry of entries, in some order
OneRecordEach(entries, records) ==
    /\ Len(records) = Len(entries)
    /\ \E f \in [1..Len(entries) -> 1..Len(entries)] :
          /\ \A i, j \in 1..Len(entries) : f[i] = f[j] => i = j
          /\ \A i \in 1..Len(entries) :
                records[f[i]] = ExpectedRecord(entries[i].s)

\* C12: when every attachment can be read, the request is issued only after
\* every read has completed, and as soon as the last one has; its payload
\* holds exactly one {Name, Content, ContentType} record per attachment,
\* under every interleaving of the reads.
C12_RequestAfterAllReads ==
    ReadableAttachments
    => /\ (\E i \in DOMAIN reads : reads[i] = "pending") => sent = <<>>
       /\ (\A i \in DOMAIN reads : reads[i] = "ok") => Len(sent) = 1
       /\ Len(sent) = 1
            => OneRecordEach(msg.attachments.a, Get(Wire, "Attachments").a)

\* notes.txt and logo.png were both read, logo.png first, and went out as
\* two records with their base64 contents and content types
C12_Witness ==
    /\ ReadableAttachments
    /\ msg.attachments = Arr(<<Str(FileNotes), Str(FileLogo)>>)
    /\ reads = <<"ok", "ok">>
    /\ Len(sent) = 1
    /\ Get(Wire, "Attachments").a =
          <<Obj([Name |-> Str(<<"l", "o", "g", "o", ".", "p", "n", "g">>),
                 Content |-> Str(<<"i", "V", "B", "O">>),
                 ContentType |-> Str(MimeImagePng)]),
            Obj([Name |-> Str(<<"n", "o", "t", "e", "s", ".", "t", "x", "t">>),
                 Content |-> Str(<<"S", "G", "k", "h", "C", "g", "=", "=">>),
                 ContentType |-> Str(MimeTextPlain)])>>

====
